---- MODULE Spec2Model ----
(***************************************************************************)
(* Model of the DeepSeek chatbot front ends.                               *)
(*                                                                         *)
(*   - the Streamlit page  deepseek_chatbot/app.py  (main), one script run *)
(*     per user interaction, several browser sessions in one process that  *)
(*     share os.environ;                                                   *)
(*   - the completion client  deepseek_chatbot/core.py  (DeepSeekChatbot,  *)
(*     get_token_from_env);                                                *)
(*   - the command line loop  deepseek_chatbot/cli.py  (query_deepseek,    *)
(*     main).                                                              *)
(*                                                                         *)
(* Python values are modelled as tagged records so that None, strings,     *)
(* lists and objects with or without an attribute stay distinguishable.    *)
(* A string is a sequence of one-character strings.                        *)
(***************************************************************************)
EXTENDS Integers, Sequences, FiniteSets, TLC

VARIABLES
    environ,        \* os.environ of the Streamlit process
    session_state,  \* st.session_state of every browser session
    pc,             \* where a session's latest script run stands or ended
    full_response,  \* local of main: the text accumulated while streaming
    displayed,      \* what response_container has shown during the run
    calls,          \* number of client.complete invocations so far
    fragments,      \* what each chunk of the current/latest stream carried
    lastCall,       \* the latest client.complete invocation and its result
    submitted,      \* the texts each session's chat input has handed to a submit
    cli_environ,    \* os.environ of the command line process
    cli_args,       \* parsed argparse namespace
    cli_pc,         \* position of the command line process
    cli_prompt,     \* argument prompt of the current/latest query_deepseek
    cli_full,       \* local full_response of query_deepseek
    cli_fragments,  \* what each chunk of the CLI's current/latest stream carried
    cli_return,     \* value returned by the latest query_deepseek call
    cli_exit,       \* exit status once the process has ended, -1 before
    cli_calls,      \* number of client.complete invocations by the CLI
    cli_request,    \* arguments of the CLI's latest client.complete
    cli_usage       \* whether parser.print_help() has run

gui_vars == <<environ, session_state, pc, full_response, displayed, calls,
              fragments, lastCall, submitted>>
cli_vars == <<cli_environ, cli_args, cli_pc, cli_prompt, cli_full, cli_fragments,
              cli_return, cli_exit, cli_calls, cli_request, cli_usage>>
vars == <<gui_vars, cli_vars>>

----------------------------------------------------------------------------
(* Bounds *)

MaxTurns == 4       \* turns a session log may reach before submits stop
MaxChunks == 2      \* fragments delivered by one streaming response
MaxCliCalls == 2    \* queries the interactive command line loop may issue

----------------------------------------------------------------------------
(* Python values *)

PyNone == [py |-> "None"]
PyStr(s) == [py |-> "str", s |-> s]
PyList(items) == [py |-> "list", items |-> items]
PyObj(attrs) == [py |-> "obj", attrs |-> attrs]

\* bool(v) as Python evaluates it in `if v:` and `a and b`
Truthy(v) ==
    CASE v.py = "None" -> FALSE
      [] v.py = "str" -> Len(v.s) > 0
      [] v.py = "list" -> Len(v.items) > 0
      [] v.py = "obj" -> TRUE

\* a or b
PyOr(a, b) == IF Truthy(a) THEN a ELSE b

hasattr(o, name) == o.py = "obj" /\ name \in DOMAIN o.attrs
getattr(o, name) == o.attrs[name]

\* a + b with the operands swapped
StrConcat_Swapped(a, b) == PyStr(b.s \o a.s)

\* a + b on strings
StrConcat(a, b) == PyStr(a.s \o b.s)

\* dictionaries: functions from keys to values
EmptyDict == [k \in {} |-> PyNone]
SetKey(d, k, v) == [x \in (DOMAIN d) \cup {k} |-> IF x = k THEN v ELSE d[x]]
DelKey(d, k) == [x \in (DOMAIN d) \ {k} |-> d[x]]
DictGet(d, k) == IF k \in DOMAIN d THEN PyStr(d[k]) ELSE PyNone

----------------------------------------------------------------------------
(* Program constants *)

MODEL_NAME == "DeepSeek-V3"
DefaultMaxTokens == 1000
SliderMax == 4000

\* the literal "Error getting response from the model.", written as one
\* symbol that no user input and no model output contains
FallbackText == PyStr(<<"Error getting response from the model.">>)

----------------------------------------------------------------------------
(* Inputs *)

Sessions == {"s1", "s2"}

\* the credential each user types into the Connect form
CredentialOf(s) == IF s = "s1" THEN <<"A">> ELSE <<"B">>

\* what the text_input of the Connect form can hold: nothing or the credential
TokenInputs(s) == {PyStr(<<>>), PyStr(CredentialOf(s))}

\* values of the environment at process start
StartEnvs ==
    { EmptyDict,
      SetKey(EmptyDict, "GITHUB_TOKEN", <<"G">>),
      SetKey(EmptyDict, "AZURE_KEY", <<"Z">>) }

\* texts the chat input can deliver: empty, whitespace only, non-blank
UserInputs == {PyStr(<<>>), PyStr(<<" ">>), PyStr(<<"a">>)}

MaxTokensChoices == {DefaultMaxTokens, SliderMax}

----------------------------------------------------------------------------
(* Remote service: what client.complete can hand back *)

\* texts the model can produce as a message content or a fragment content
ModelTexts == {PyStr(<<>>), PyStr(<<"b">>), PyStr(<<"c">>)}

Message(content) == PyObj([content |-> content])
Choice(message) == PyObj([message |-> message])
Response(choices) == PyObj([choices |-> choices])

\* non-streaming results: well formed, and every way a field can be missing
WellFormedResponses == {Response(PyList(<<Choice(Message(c))>>)) : c \in ModelTexts}
NullContentResponse == Response(PyList(<<Choice(Message(PyNone))>>))
NoChoicesResponses == {PyObj(EmptyDict), Response(PyNone), Response(PyList(<<>>))}
NoMessageResponses ==
    { Response(PyList(<<PyObj(EmptyDict)>>)),
      Response(PyList(<<Choice(PyNone)>>)) }
NoContentAttrResponse == Response(PyList(<<Choice(PyObj(EmptyDict))>>))

BlockingResponses ==
    WellFormedResponses \cup {NullContentResponse} \cup NoChoicesResponses
        \cup NoMessageResponses \cup {NoContentAttrResponse}

Raise == [kind |-> "raise"]
Return(v) == [kind |-> "return", value |-> v]

\* the iterable a streaming call returns; its chunks arrive one at a time
StreamIterable == [py |-> "iter"]

BlockingOutcomes == {Raise, Return(PyNone)} \cup {Return(r) : r \in BlockingResponses}
StreamOutcomes == {Raise, Return(PyNone), Return(StreamIterable)}

Delta(content) == PyObj([content |-> content])
ChunkOf(delta) == Response(PyList(<<PyObj([delta |-> delta])>>))

WellFormedChunks == {ChunkOf(Delta(c)) : c \in ModelTexts}
MalformedChunks ==
    { PyObj(EmptyDict),                         \* no choices attribute
      Response(PyList(<<>>)),                   \* empty choices list
      Response(PyList(<<PyObj(EmptyDict)>>)),   \* choice without delta
      ChunkOf(PyNone),                          \* delta is None
      ChunkOf(PyObj(EmptyDict)),                \* delta without content
      ChunkOf(Delta(PyNone)) }                  \* content is None
ChunkValues == WellFormedChunks \cup MalformedChunks

\* the text the service put into a chunk: the delta content of a well-formed
\* chunk, None for a chunk that carries no text
Carried(chunk) ==
    IF chunk \in WellFormedChunks
    THEN chunk.attrs.choices.items[1].attrs.delta.attrs.content
    ELSE PyNone

----------------------------------------------------------------------------
(* deepseek_chatbot/core.py *)

\* os.environ.get("GITHUB_TOKEN") or os.environ.get("AZURE_KEY")
get_token_from_env(env) == PyOr(DictGet(env, "GITHUB_TOKEN"), DictGet(env, "AZURE_KEY"))

\* DeepSeekChatbot(token): the client holds the credential and the model name
DeepSeekChatbot(token) == [credential |-> token, model_name |-> MODEL_NAME]

\* the max_tokens parameter of get_response: the caller's keyword argument,
\* or the default of the signature when the caller leaves it out
MaxTokensParameter(kwargs) ==
    IF "max_tokens" \in DOMAIN kwargs THEN kwargs.max_tokens ELSE DefaultMaxTokens

\* variant: the limit is fixed, whatever the caller asks for
CompleteArgs_FixedMaxTokens(chatbot, messages, stream, max_tokens) ==
    [ credential |-> chatbot.credential,
      stream |-> stream,
      messages |-> messages,
      model |-> chatbot.model_name,
      max_tokens |-> DefaultMaxTokens ]

\* the keyword arguments get_response hands to client.complete
CompleteArgs(chatbot, messages, stream, max_tokens) ==
    [ credential |-> chatbot.credential,
      stream |-> stream,
      messages |-> messages,
      model |-> chatbot.model_name,
      max_tokens |-> max_tokens ]

\* get_response: the result of client.complete, unchanged; a failure of the
\* remote call is not caught here
get_response(outcome) == outcome

----------------------------------------------------------------------------
(* deepseek_chatbot/app.py: pieces of main *)

init_session_state(ss) ==
    LET withMessages == IF "messages" \in DOMAIN ss THEN ss
                        ELSE SetKey(ss, "messages", <<>>)
    IN  IF "authenticated" \in DOMAIN withMessages THEN withMessages
        ELSE SetKey(withMessages, "authenticated", FALSE)

\* lines 42-46: adopt the token of the process environment
EnvCheck(ss, env) ==
    LET env_token == get_token_from_env(env)
    IN  IF Truthy(env_token) /\ ~ss.authenticated
        THEN SetKey(SetKey(ss, "authenticated", TRUE), "token", env_token)
        ELSE ss

\* the script from its first line down to the sidebar's branch on
\* st.session_state.authenticated
Prologue(ss, env) == EnvCheck(init_session_state(ss), env)

\* messages.insert(0, ...) in place of append
AppendMessage_Prepends(ss, role, content) ==
    [ss EXCEPT !["messages"] = <<[role |-> role, content |-> content]>> \o @]

\* st.session_state.messages.append(...)
AppendMessage(ss, role, content) ==
    [ss EXCEPT !["messages"] = Append(@, [role |-> role, content |-> content])]

UserMessage(content) == [type |-> "UserMessage", content |-> content]
AssistantMessage(content) == [type |-> "AssistantMessage", content |-> content]

\* the loop run over the last two turns only (a context window)
PrepareApiMessages_Windowed(msgs) ==
    LET recent == IF Len(msgs) > 2 THEN SubSeq(msgs, Len(msgs) - 1, Len(msgs)) ELSE msgs
    IN  [i \in 1..Len(recent) |->
            IF recent[i].role = "user" THEN UserMessage(recent[i].content)
            ELSE AssistantMessage(recent[i].content)]

\* lines 126-131: the loop that builds api_messages
RECURSIVE PrepareApiMessages(_)
PrepareApiMessages(msgs) ==
    IF msgs = <<>> THEN <<>>
    ELSE LET msg == Head(msgs)
             rest == PrepareApiMessages(Tail(msgs))
         IN  IF msg.role = "user" THEN <<UserMessage(msg.content)>> \o rest
             ELSE IF msg.role = "assistant" THEN <<AssistantMessage(msg.content)>> \o rest
             ELSE rest

\* variant: a chunk without a text contributes the fallback literal
ChunkContent_FallbackOnMissing(chunk) ==
    IF /\ hasattr(chunk, "choices")
       /\ Truthy(getattr(chunk, "choices"))
       /\ hasattr(getattr(chunk, "choices").items[1], "delta")
       /\ getattr(getattr(chunk, "choices").items[1], "delta") # PyNone
       /\ hasattr(getattr(getattr(chunk, "choices").items[1], "delta"), "content")
    THEN PyOr(getattr(getattr(getattr(chunk, "choices").items[1], "delta"), "content"),
              FallbackText)
    ELSE FallbackText

\* lines 146-154: the text one chunk contributes
ChunkContent(chunk) ==
    IF /\ hasattr(chunk, "choices")
       /\ Truthy(getattr(chunk, "choices"))
       /\ hasattr(getattr(chunk, "choices").items[1], "delta")
       /\ getattr(getattr(chunk, "choices").items[1], "delta") # PyNone
       /\ hasattr(getattr(getattr(chunk, "choices").items[1], "delta"), "content")
    THEN PyOr(getattr(getattr(getattr(chunk, "choices").items[1], "delta"), "content"),
              PyStr(<<>>))
    ELSE PyStr(<<>>)

\* the non-streaming branch with an empty text where a field is missing
BlockingFinalResponse_EmptyOnMissing(response) ==
    IF response # PyNone
    THEN IF /\ hasattr(response, "choices")
            /\ Truthy(getattr(response, "choices"))
            /\ hasattr(getattr(response, "choices").items[1], "message")
            /\ Truthy(getattr(getattr(response, "choices").items[1], "message"))
            /\ hasattr(getattr(getattr(response, "choices").items[1], "message"), "content")
         THEN getattr(getattr(getattr(response, "choices").items[1], "message"), "content")
         ELSE PyStr(<<>>)
    ELSE FallbackText

\* lines 169-184: final_response of the non-streaming branch
BlockingFinalResponse(response) ==
    IF response # PyNone
    THEN IF /\ hasattr(response, "choices")
            /\ Truthy(getattr(response, "choices"))
            /\ hasattr(getattr(response, "choices").items[1], "message")
            /\ Truthy(getattr(getattr(response, "choices").items[1], "message"))
            /\ hasattr(getattr(getattr(response, "choices").items[1], "message"), "content")
         THEN getattr(getattr(getattr(response, "choices").items[1], "message"), "content")
         ELSE FallbackText
    ELSE FallbackText

----------------------------------------------------------------------------
(* State of the Streamlit process *)

NoCall == [sid |-> "none"]

\* pc: "ready"     no response handling in the latest run
\*     "streaming" inside `for chunk in response`
\*     "streamed"  the stream ended and its text was committed
\*     "failed"    the iteration raised and the fallback was committed
\*     "answered"  the branch without iteration committed its final_response
\*     "raised"    get_response raised and the exception left main
Idle(s) == pc[s] # "streaming"

\* a run that ends without entering the response handling
NoResponseHandling(s) ==
    /\ pc' = [pc EXCEPT ![s] = "ready"]
    /\ full_response' = [full_response EXCEPT ![s] = PyStr(<<>>)]
    /\ displayed' = [displayed EXCEPT ![s] = <<>>]
    /\ fragments' = [fragments EXCEPT ![s] = <<>>]

GuiInit ==
    /\ environ \in StartEnvs
    /\ session_state = [s \in Sessions |-> init_session_state(EmptyDict)]
    /\ pc = [s \in Sessions |-> "ready"]
    /\ full_response = [s \in Sessions |-> PyStr(<<>>)]
    /\ displayed = [s \in Sessions |-> <<>>]
    /\ fragments = [s \in Sessions |-> <<>>]
    /\ calls = 0
    /\ lastCall = NoCall
    /\ submitted = [s \in Sessions |-> <<>>]

\* a script run without any widget event (page load, slider moved, ...)
Rerun(s) ==
    /\ Idle(s)
    /\ session_state' = [session_state EXCEPT ![s] = Prologue(@, environ)]
    /\ NoResponseHandling(s)
    /\ UNCHANGED <<environ, calls, lastCall, submitted, cli_vars>>

\* lines 48-74: the Connect form was on the page and its button is clicked
Connect(s, token) ==
    /\ Idle(s)
    /\ ~session_state[s].authenticated
    /\ LET ss0 == Prologue(session_state[s], environ)
       IN  IF ~ss0.authenticated /\ Truthy(token)
           THEN LET env1 == SetKey(environ, "GITHUB_TOKEN", token.s)
                    ss1 == SetKey(SetKey(ss0, "authenticated", TRUE), "token", token)
                IN  /\ environ' = env1
                    \* st.experimental_rerun(): the script runs again at once
                    /\ session_state' = [session_state EXCEPT ![s] = Prologue(ss1, env1)]
           ELSE /\ environ' = environ
                /\ session_state' = [session_state EXCEPT ![s] = ss0]
    /\ NoResponseHandling(s)
    /\ UNCHANGED <<calls, lastCall, submitted, cli_vars>>

\* lines 75-81: the Disconnect button was on the page and is clicked
Disconnect(s) ==
    /\ Idle(s)
    /\ session_state[s].authenticated
    /\ LET ss0 == Prologue(session_state[s], environ)
           ss1 == SetKey(ss0, "authenticated", FALSE)
           ss2 == IF "token" \in DOMAIN ss1 THEN DelKey(ss1, "token") ELSE ss1
       IN  \* st.experimental_rerun(): the script runs again at once
           session_state' = [session_state EXCEPT ![s] = Prologue(ss2, environ)]
    /\ NoResponseHandling(s)
    /\ UNCHANGED <<environ, calls, lastCall, submitted, cli_vars>>

\* lines 104-187: the chat input delivers user_input
Submit(s, user_input, streaming_enabled, max_tokens, outcome) ==
    /\ Idle(s)
    /\ session_state[s].authenticated
    /\ LET ss0 == Prologue(session_state[s], environ)
           chatbot == DeepSeekChatbot(ss0.token)
           ss1 == AppendMessage(ss0, "user", user_input)
           api_messages == PrepareApiMessages(ss1.messages)
           kwargs == [messages |-> api_messages, stream |-> streaming_enabled,
                      max_tokens |-> max_tokens]
           response == get_response(outcome)
       IN  IF ~Truthy(user_input)
           THEN /\ session_state' = [session_state EXCEPT ![s] = ss0]
                /\ NoResponseHandling(s)
                /\ UNCHANGED <<calls, lastCall, submitted>>
           ELSE /\ Len(ss1.messages) < MaxTurns
                /\ calls' = calls + 1
                /\ submitted' = [submitted EXCEPT ![s] = Append(@, user_input)]
                /\ lastCall' =
                       [ sid |-> s,
                         passed |-> kwargs,
                         args |-> CompleteArgs(chatbot, api_messages,
                                               streaming_enabled,
                                               MaxTokensParameter(kwargs)),
                         log |-> ss1.messages,
                         remote |-> outcome,
                         result |-> response ]
                /\ fragments' = [fragments EXCEPT ![s] = <<>>]
                /\ full_response' = [full_response EXCEPT ![s] = PyStr(<<>>)]
                /\ IF response = Raise
                   THEN \* the exception leaves main: the run ends here
                        /\ session_state' = [session_state EXCEPT ![s] = ss1]
                        /\ displayed' = [displayed EXCEPT ![s] = <<>>]
                        /\ pc' = [pc EXCEPT ![s] = "raised"]
                   ELSE IF streaming_enabled /\ response.value # PyNone
                   THEN /\ session_state' = [session_state EXCEPT ![s] = ss1]
                        /\ displayed' = [displayed EXCEPT ![s] = <<>>]
                        /\ pc' = [pc EXCEPT ![s] = "streaming"]
                   ELSE LET final_response ==
                                IF streaming_enabled THEN FallbackText
                                ELSE BlockingFinalResponse(response.value)
                        IN  /\ session_state' = [session_state EXCEPT ![s] =
                                   AppendMessage(ss1, "assistant", final_response)]
                            /\ displayed' = [displayed EXCEPT ![s] = <<final_response>>]
                            /\ pc' = [pc EXCEPT ![s] = "answered"]
    /\ UNCHANGED <<environ, cli_vars>>

\* variant: a fragment equal to the one before it is not accumulated again
StreamChunk_NoRepeat(s, chunk) ==
    /\ pc[s] = "streaming"
    /\ Len(fragments[s]) < MaxChunks
    /\ LET content == ChunkContent(chunk)
           repeated == /\ fragments[s] # <<>>
                       /\ fragments[s][Len(fragments[s])] = Carried(chunk)
           accumulated == IF repeated THEN full_response[s]
                          ELSE StrConcat(full_response[s], content)
       IN  /\ full_response' = [full_response EXCEPT ![s] = accumulated]
           /\ displayed' = [displayed EXCEPT ![s] = Append(@, accumulated)]
    /\ fragments' = [fragments EXCEPT ![s] = Append(@, Carried(chunk))]
    /\ UNCHANGED <<environ, session_state, pc, calls, lastCall, submitted, cli_vars>>

\* lines 144-157: one iteration of `for chunk in response`
StreamChunk(s, chunk) ==
    /\ pc[s] = "streaming"
    /\ Len(fragments[s]) < MaxChunks
    /\ LET content == ChunkContent(chunk)
           accumulated == StrConcat(full_response[s], content)
       IN  /\ full_response' = [full_response EXCEPT ![s] = accumulated]
           /\ displayed' = [displayed EXCEPT ![s] = Append(@, accumulated)]
    /\ fragments' = [fragments EXCEPT ![s] = Append(@, Carried(chunk))]
    /\ UNCHANGED <<environ, session_state, pc, calls, lastCall, submitted, cli_vars>>

\* lines 159, 187: the iteration ends; the accumulated text is committed
StreamEnd(s) ==
    /\ pc[s] = "streaming"
    /\ LET final_response == full_response[s]
       IN  session_state' = [session_state EXCEPT ![s] =
               AppendMessage(@, "assistant", final_response)]
    /\ pc' = [pc EXCEPT ![s] = "streamed"]
    /\ UNCHANGED <<environ, full_response, displayed, fragments, calls, lastCall, submitted, cli_vars>>

\* the except branch keeping what was accumulated so far
StreamFail_KeepsPartial(s) ==
    /\ pc[s] = "streaming"
    /\ session_state' = [session_state EXCEPT ![s] =
           AppendMessage(@, "assistant", full_response[s])]
    /\ pc' = [pc EXCEPT ![s] = "failed"]
    /\ UNCHANGED <<environ, full_response, displayed, fragments, calls, lastCall, submitted, cli_vars>>

\* lines 160-162, 187: the iteration raises; the fallback is committed
StreamFail(s) ==
    /\ pc[s] = "streaming"
    /\ LET final_response == FallbackText
       IN  session_state' = [session_state EXCEPT ![s] =
               AppendMessage(@, "assistant", final_response)]
    /\ pc' = [pc EXCEPT ![s] = "failed"]
    /\ UNCHANGED <<environ, full_response, displayed, fragments, calls, lastCall, submitted, cli_vars>>

----------------------------------------------------------------------------
(* deepseek_chatbot/cli.py *)

\* lines 50-60: the text one chunk contributes in query_deepseek
CliChunkContent(chunk) ==
    IF /\ hasattr(chunk, "choices")
       /\ Truthy(getattr(chunk, "choices"))
       /\ hasattr(getattr(chunk, "choices").items[1], "delta")
       /\ Truthy(getattr(getattr(chunk, "choices").items[1], "delta"))
       /\ hasattr(getattr(getattr(chunk, "choices").items[1], "delta"), "content")
    THEN PyOr(getattr(getattr(getattr(chunk, "choices").items[1], "delta"), "content"),
              PyStr(<<>>))
    ELSE PyStr(<<>>)

\* lines 65-78: what the non-streaming branch of query_deepseek returns
CliBlockingReturn(response) ==
    IF /\ Truthy(response)
       /\ hasattr(response, "choices")
       /\ Truthy(getattr(response, "choices"))
       /\ hasattr(getattr(response, "choices").items[1], "message")
       /\ Truthy(getattr(getattr(response, "choices").items[1], "message"))
       /\ hasattr(getattr(getattr(response, "choices").items[1], "message"), "content")
    THEN LET content ==
                 getattr(getattr(getattr(response, "choices").items[1], "message"), "content")
         IN  IF content # PyNone THEN content ELSE PyNone
    ELSE PyNone

\* variant: only an absent token ends the process
query_deepseek_ExitsOnNoneOnly(env, prompt, stream, outcome) ==
    LET token == get_token_from_env(env)
        chatbot == DeepSeekChatbot(token)
        messages == <<UserMessage(prompt)>>
        \* get_response(messages, stream=...): max_tokens is left out
        kwargs == [messages |-> messages, stream |-> stream]
        request == CompleteArgs(chatbot, messages, stream, MaxTokensParameter(kwargs))
        response == get_response(outcome)
    IN  IF token = PyNone
        THEN [step |-> "exit", status |-> 1, called |-> FALSE]
        ELSE IF stream
        THEN IF response = Raise \/ response.value = PyNone
             \* the inner except: the call or iter(None) raised
             THEN [step |-> "return", value |-> PyNone, called |-> TRUE,
                   request |-> request]
             ELSE [step |-> "iterate", called |-> TRUE, request |-> request]
        ELSE IF response = Raise
             THEN [step |-> "exit", status |-> 1, called |-> TRUE, request |-> request]
             ELSE [step |-> "return", value |-> CliBlockingReturn(response.value),
                   called |-> TRUE, request |-> request]

\* lines 31-46, 65-66, 79-81: query_deepseek up to the point where it returns,
\* exits or starts to iterate over the stream
query_deepseek(env, prompt, stream, outcome) ==
    LET token == get_token_from_env(env)
        chatbot == DeepSeekChatbot(token)
        messages == <<UserMessage(prompt)>>
        \* get_response(messages, stream=...): max_tokens is left out
        kwargs == [messages |-> messages, stream |-> stream]
        request == CompleteArgs(chatbot, messages, stream, MaxTokensParameter(kwargs))
        response == get_response(outcome)
    IN  IF ~Truthy(token)
        THEN [step |-> "exit", status |-> 1, called |-> FALSE]
        ELSE IF stream
        THEN IF response = Raise \/ response.value = PyNone
             \* the inner except: the call or iter(None) raised
             THEN [step |-> "return", value |-> PyNone, called |-> TRUE,
                   request |-> request]
             ELSE [step |-> "iterate", called |-> TRUE, request |-> request]
        ELSE IF response = Raise
             THEN [step |-> "exit", status |-> 1, called |-> TRUE, request |-> request]
             ELSE [step |-> "return", value |-> CliBlockingReturn(response.value),
                   called |-> TRUE, request |-> request]

\* str.lower() on the letters the inputs use
LowerChar(c) ==
    CASE c = "E" -> "e" [] c = "X" -> "x" [] c = "I" -> "i" [] c = "T" -> "t"
      [] c = "Q" -> "q" [] c = "U" -> "u" [] OTHER -> c
\* variant: the line is compared as typed
Lower_AsTyped(str) == str
Lower(str) == PyStr([i \in 1..Len(str.s) |-> LowerChar(str.s[i])])

ExitWords == {PyStr(<<"e", "x", "i", "t">>), PyStr(<<"q", "u", "i", "t">>)}

----------------------------------------------------------------------------
(* Command line process *)

NoReturn == [py |-> "unset"]

\* input() raising EOFError or KeyboardInterrupt
EndOfInput == [py |-> "EOFError"]
Interrupt == [py |-> "KeyboardInterrupt"]

CliLines ==
    { PyStr(<<>>), PyStr(<<" ">>), PyStr(<<"a">>),
      PyStr(<<"e", "x", "i", "t">>), PyStr(<<"E", "x", "I", "T">>),
      PyStr(<<"Q", "u", "i", "t">>), PyStr(<<"q", "u", "i", "t", " ">>) }

CliArgs ==
    [ interactive : BOOLEAN, stream : BOOLEAN,
      prompt : {PyNone, PyStr(<<>>), PyStr(<<"a">>)} ]

CliEnvs ==
    StartEnvs \cup
    { SetKey(EmptyDict, "GITHUB_TOKEN", <<>>),
      SetKey(SetKey(EmptyDict, "GITHUB_TOKEN", <<>>), "AZURE_KEY", <<>>) }

\* the process before main has parsed anything
CliNotStarted ==
    /\ cli_pc = "main"
    /\ cli_prompt = PyNone
    /\ cli_full = PyStr(<<>>)
    /\ cli_fragments = <<>>
    /\ cli_return = NoReturn
    /\ cli_exit = -1
    /\ cli_calls = 0
    /\ cli_request = NoCall
    /\ cli_usage = FALSE

CliInit ==
    /\ cli_environ \in CliEnvs
    /\ cli_args \in CliArgs
    /\ CliNotStarted

\* variant: the message list lives across the calls of the loop
RunQuery_KeepsHistory(prompt, stream, outcome, interactive) ==
    LET q == query_deepseek(cli_environ, prompt, stream, outcome)
    IN  /\ cli_prompt' = prompt
        /\ cli_full' = PyStr(<<>>)
        /\ cli_fragments' = <<>>
        /\ cli_calls' = IF q.called THEN cli_calls + 1 ELSE cli_calls
        /\ cli_request' =
               IF ~q.called THEN cli_request
               ELSE IF cli_request = NoCall THEN q.request
               ELSE [q.request EXCEPT !.messages = cli_request.messages \o @]
        /\ IF q.step = "exit"
           \* sys.exit(1)
           THEN /\ cli_pc' = "exited"
                /\ cli_exit' = q.status
                /\ cli_return' = NoReturn
           ELSE IF q.step = "iterate"
           THEN /\ cli_pc' = "streaming"
                /\ cli_return' = NoReturn
                /\ UNCHANGED cli_exit
           ELSE /\ cli_return' = q.value
                /\ IF interactive
                   THEN cli_pc' = "input" /\ UNCHANGED cli_exit
                   ELSE cli_pc' = "exited" /\ cli_exit' = 0

\* the effect of one query_deepseek call on the process; interactive says
\* whether the call was made from the loop
RunQuery(prompt, stream, outcome, interactive) ==
    LET q == query_deepseek(cli_environ, prompt, stream, outcome)
    IN  /\ cli_prompt' = prompt
        /\ cli_full' = PyStr(<<>>)
        /\ cli_fragments' = <<>>
        /\ cli_calls' = IF q.called THEN cli_calls + 1 ELSE cli_calls
        /\ cli_request' = IF q.called THEN q.request ELSE cli_request
        /\ IF q.step = "exit"
           \* sys.exit(1)
           THEN /\ cli_pc' = "exited"
                /\ cli_exit' = q.status
                /\ cli_return' = NoReturn
           ELSE IF q.step = "iterate"
           THEN /\ cli_pc' = "streaming"
                /\ cli_return' = NoReturn
                /\ UNCHANGED cli_exit
           ELSE /\ cli_return' = q.value
                /\ IF interactive
                   THEN cli_pc' = "input" /\ UNCHANGED cli_exit
                   ELSE cli_pc' = "exited" /\ cli_exit' = 0

\* lines 84-97, 105-116: main up to the loop, the one-shot query or the usage
CliMain(outcome) ==
    /\ cli_pc = "main"
    /\ IF cli_args.interactive
       THEN /\ cli_pc' = "input"
            /\ UNCHANGED <<cli_prompt, cli_full, cli_fragments, cli_return, cli_exit,
                           cli_calls, cli_request, cli_usage>>
       ELSE IF Truthy(cli_args.prompt)
       THEN /\ RunQuery(cli_args.prompt, cli_args.stream, outcome, FALSE)
            /\ UNCHANGED cli_usage
       ELSE /\ cli_usage' = TRUE
            /\ cli_pc' = "exited"
            /\ cli_exit' = 0
            /\ UNCHANGED <<cli_prompt, cli_full, cli_fragments, cli_return,
                           cli_calls, cli_request>>
    /\ UNCHANGED <<cli_environ, cli_args, gui_vars>>

\* lines 97-110: one pass of the interactive loop
CliInput(user_input, outcome) ==
    /\ cli_pc = "input"
    /\ IF user_input \in {EndOfInput, Interrupt} \/ Lower(user_input) \in ExitWords
       THEN /\ cli_pc' = "exited"
            /\ cli_exit' = 0
            /\ UNCHANGED <<cli_prompt, cli_full, cli_fragments, cli_return,
                           cli_calls, cli_request>>
       ELSE /\ cli_calls < MaxCliCalls
            /\ RunQuery(user_input, TRUE, outcome, TRUE)
    /\ UNCHANGED <<cli_environ, cli_args, cli_usage, gui_vars>>

\* lines 46-57: one iteration of `for chunk in chatbot.get_response(...)`
CliStreamChunk(chunk) ==
    /\ cli_pc = "streaming"
    /\ Len(cli_fragments) < MaxChunks
    /\ cli_full' = StrConcat(cli_full, CliChunkContent(chunk))
    /\ cli_fragments' = Append(cli_fragments, Carried(chunk))
    /\ UNCHANGED <<cli_environ, cli_args, cli_pc, cli_prompt, cli_return, cli_exit,
                   cli_calls, cli_request, cli_usage, gui_vars>>

\* the return from a query that was iterating
CliReturn(value) ==
    /\ cli_pc = "streaming"
    /\ cli_return' = value
    /\ IF cli_args.interactive
       THEN cli_pc' = "input" /\ UNCHANGED cli_exit
       ELSE cli_pc' = "exited" /\ cli_exit' = 0
    /\ UNCHANGED <<cli_environ, cli_args, cli_prompt, cli_full, cli_fragments,
                   cli_calls, cli_request, cli_usage, gui_vars>>

\* lines 59-60: the stream ends, full_response is returned
CliStreamEnd == CliReturn(cli_full)

\* lines 61-63: the iteration raises, None is returned
CliStreamFail == CliReturn(PyNone)

----------------------------------------------------------------------------
(* Specifications *)

\* the specifications of the Streamlit process leave the command line
\* process unstarted, and the other way round
CliAbsent ==
    /\ cli_environ = EmptyDict
    /\ cli_args = [interactive |-> FALSE, stream |-> FALSE, prompt |-> PyNone]
    /\ CliNotStarted

GuiAbsent ==
    /\ GuiInit
    /\ environ = EmptyDict

Init == GuiInit /\ CliAbsent

\* one submit: the streaming checkbox decides which results can come back
SubmitAny(s, blocking_outcomes) ==
    \E user_input \in UserInputs, max_tokens \in MaxTokensChoices :
        \/ \E outcome \in StreamOutcomes :
              Submit(s, user_input, TRUE, max_tokens, outcome)
        \/ \E outcome \in blocking_outcomes :
              Submit(s, user_input, FALSE, max_tokens, outcome)

\* every interaction of one browser session; may_submit says whether the
\* specification lets the session start another submit
SessionStep(s, may_submit, blocking_outcomes, chunk_values) ==
    \/ Rerun(s)
    \/ \E token \in TokenInputs(s) : Connect(s, token)
    \/ Disconnect(s)
    \/ may_submit /\ SubmitAny(s, blocking_outcomes)
    \/ \E chunk \in chunk_values : StreamChunk(s, chunk)
    \/ StreamEnd(s)
    \/ StreamFail(s)

\* Spec: one browser session over several exchanges; one response of each
\* kind of result
BasicOutcomes ==
    { Raise, Return(PyNone), Return(PyObj(EmptyDict)), Return(NullContentResponse),
      Return(Response(PyList(<<Choice(Message(PyStr(<<"b">>)))>>))) }
BasicChunks == {ChunkOf(Delta(PyStr(<<"b">>))), PyObj(EmptyDict)}

Next == SessionStep("s1", TRUE, BasicOutcomes, BasicChunks)

Spec == Init /\ [][Next]_vars

\* SpecExchange: the first exchange of a session, with every shape of
\* response and of chunk
FirstExchange(s) ==
    SessionStep(s, session_state[s].messages = <<>>, BlockingOutcomes, ChunkValues)

NextExchange == FirstExchange("s1")

SpecExchange == Init /\ [][NextExchange]_vars

\* SpecShared: two browser sessions in one process, their script runs
\* interleaved; every submit is answered at once with the text "b"
SharedStep(s) ==
    \/ Rerun(s)
    \/ \E token \in TokenInputs(s) : Connect(s, token)
    \/ Disconnect(s)
    \/ \E user_input \in UserInputs :
          Submit(s, user_input, FALSE, DefaultMaxTokens,
                 Return(Response(PyList(<<Choice(Message(PyStr(<<"b">>)))>>))))

NextShared == \E s \in Sessions : SharedStep(s)

SpecShared == Init /\ [][NextShared]_vars

\* SpecCli: the command line process
InitCli == GuiAbsent /\ CliInit

NextCli ==
    \/ \E outcome \in (IF cli_args.stream THEN StreamOutcomes ELSE BlockingOutcomes) :
          CliMain(outcome)
    \/ \E user_input \in CliLines \cup {EndOfInput, Interrupt}, outcome \in StreamOutcomes :
          CliInput(user_input, outcome)
    \/ \E chunk \in ChunkValues : CliStreamChunk(chunk)
    \/ CliStreamEnd
    \/ CliStreamFail

SpecCli == InitCli /\ [][NextCli]_vars

----------------------------------------------------------------------------
(* Properties *)

Msgs(s) == session_state[s].messages

IsPrefix(a, b) == Len(a) <= Len(b) /\ SubSeq(b, 1, Len(a)) = a

\* str.strip() == "": empty or whitespace only
IsBlank(str) == \A i \in 1..Len(str.s) : str.s[i] = " "

Turn(role, content) == [role |-> role, content |-> content]

\* f1 + ... + fn
RECURSIVE Concat(_)
Concat(texts) ==
    IF texts = <<>> THEN PyStr(<<>>)
    ELSE PyStr(Head(texts).s \o Concat(Tail(texts)).s)

\* user, assistant, user, assistant, ...
Paired(msgs) ==
    /\ Len(msgs) % 2 = 0
    /\ \A i \in 1..Len(msgs) :
          msgs[i].role = IF i % 2 = 1 THEN "user" ELSE "assistant"

\* C1: whenever no submit of a session is in flight, its log consists of
\* user turns each followed by its assistant turn: every submit of a
\* non-blank text, successful or failed, has added exactly two turns.
C1_TurnsPaired == \A s \in Sessions : Idle(s) => Paired(Msgs(s))

\* C2: a blank text (empty or whitespace only) never becomes a user turn of
\* a session and never is the prompt of a completion request of the
\* command line loop.
C2_BlankIsNoOp ==
    /\ \A s \in Sessions : \A i \in 1..Len(Msgs(s)) :
          Msgs(s)[i].role = "user" => ~IsBlank(Msgs(s)[i].content)
    /\ cli_request # NoCall => ~IsBlank(cli_request.messages[1].content)

\* C3: when the iteration over the stream has failed, the turn committed
\* for that submit is the assistant turn with exactly the fallback text, and
\* no symbol of the text accumulated before the failure occurs in it.
C3_StreamFailureCommitsFallback ==
    \A s \in Sessions :
        pc[s] = "failed" =>
            /\ Len(Msgs(s)) = Len(lastCall.log) + 1
            /\ Msgs(s)[Len(Msgs(s))] = Turn("assistant", FallbackText)
            /\ \A i \in 1..Len(full_response[s].s) :
                  \A j \in 1..Len(Msgs(s)[Len(Msgs(s))].content.s) :
                      Msgs(s)[Len(Msgs(s))].content.s[j] # full_response[s].s[i]

C3_Witness ==
    \E s \in Sessions :
        /\ pc[s] = "failed"
        /\ Len(fragments[s]) = MaxChunks
        /\ Len(full_response[s].s) > 0

\* the latest call was a non-streaming one that returned a response without
\* choices or whose first choice has no message
MissingFieldCall ==
    /\ lastCall.sid \in Sessions
    /\ ~lastCall.args.stream
    /\ lastCall.result # Raise
    /\ lastCall.result.value \in NoChoicesResponses \cup NoMessageResponses

\* C4: a non-streaming response without choices (attribute absent, None or
\* empty list) or whose first choice has no message makes the submit commit
\* the assistant turn with exactly the fallback text; the run does not end
\* in a raised failure.
C4_MissingFieldCommitsFallback ==
    MissingFieldCall =>
        LET s == lastCall.sid
            n == Len(lastCall.log)
        IN  /\ Len(Msgs(s)) = n + 1
            /\ Msgs(s)[n + 1] = Turn("assistant", FallbackText)
            /\ pc[s] \in {"answered", "ready"}

C4_Witness ==
    /\ MissingFieldCall
    /\ lastCall.result.value = Response(PyList(<<>>))
    /\ pc[lastCall.sid] = "answered"

\* C5: every turn stored in a session has a text content, never None.
C5_ContentNeverNull ==
    \A s \in Sessions : \A i \in 1..Len(Msgs(s)) : Msgs(s)[i].content.py = "str"

\* the log a non-streaming submit leaves when the response content is text
BlockingSubmitLog(log, text) ==
    Append(log, Turn("assistant",
        BlockingFinalResponse(Response(PyList(<<Choice(Message(text))>>)))))

\* every chunk of the stream carried a text
AllText(frags) == \A i \in 1..Len(frags) : frags[i] # PyNone

\* C6: when a stream of fragments f1..fn has ended without failure, the
\* session equals the one a non-streaming submit of the same input on the
\* same history leaves when the response content is f1 + ... + fn.
C6_StreamingEqualsBlocking ==
    \A s \in Sessions :
        (pc[s] = "streamed" /\ AllText(fragments[s])) =>
            Msgs(s) = BlockingSubmitLog(lastCall.log, Concat(fragments[s]))

C6_Witness ==
    \E s \in Sessions :
        /\ pc[s] = "streamed"
        /\ fragments[s] = <<PyStr(<<"b">>), PyStr(<<"c">>)>>
        /\ Msgs(s)[Len(Msgs(s))].content = PyStr(<<"b", "c">>)

\* C7: the Disconnect action leaves the session with an empty turn log.
C7_DisconnectResetsLog ==
    [][\A s \in Sessions : Disconnect(s) => session_state'[s].messages = <<>>]_vars

\* C8: the credential one session typed into its Connect form is never the
\* token of another session and never the credential of a completion
\* request issued for another session.
C8_CredentialIsolation ==
    \A s \in Sessions : \A other \in Sessions \ {s} :
        /\ "token" \in DOMAIN session_state[s] =>
              session_state[s].token # PyStr(CredentialOf(other))
        /\ lastCall.sid = s => lastCall.args.credential # PyStr(CredentialOf(other))

ApiRole(api_message) ==
    IF api_message.type = "UserMessage" THEN "user" ELSE "assistant"

\* C9: the message list of a completion request is non-empty and is the
\* whole session log of that moment, turn for turn with role and content
\* kept, ending with the user turn just appended; the session has since
\* gained at most the assistant turn of that submit.
C9_FullHistoryRequest ==
    lastCall.sid \in Sessions =>
        LET sent == lastCall.args.messages
            log == lastCall.log
        IN  /\ Len(sent) >= 1
            /\ Len(sent) = Len(log)
            /\ \A i \in 1..Len(log) :
                  /\ ApiRole(sent[i]) = log[i].role
                  /\ sent[i].content = log[i].content
            /\ sent[Len(sent)].type = "UserMessage"
            /\ IsPrefix(log, Msgs(lastCall.sid))
            /\ Len(Msgs(lastCall.sid)) <= Len(log) + 1

C9_Witness ==
    /\ lastCall.sid \in Sessions
    /\ Len(lastCall.args.messages) = 3
    /\ lastCall.args.messages[2].type = "AssistantMessage"
    /\ lastCall.args.messages[1].content # lastCall.args.messages[3].content

\* the contents of the user turns of a log, in log order
RECURSIVE UserTexts(_)
UserTexts(msgs) ==
    IF msgs = <<>> THEN <<>>
    ELSE IF Head(msgs).role = "user"
         THEN <<Head(msgs).content>> \o UserTexts(Tail(msgs))
         ELSE UserTexts(Tail(msgs))

\* C10: every step leaves each session log a prefix of the log after it
\* (turns are only appended, none changed, moved or removed), and the user
\* turns of the log are the submitted texts in the order of submission.
C10_AppendOnly ==
    [][\A s \in Sessions :
          /\ IsPrefix(Msgs(s), session_state'[s].messages)
          /\ UserTexts(session_state'[s].messages) = submitted'[s]
      ]_vars

C10_Witness ==
    \E s \in Sessions :
        /\ Len(Msgs(s)) = 4
        /\ Msgs(s)[1] = Turn("user", PyStr(<<" ">>))
        /\ Msgs(s)[3] = Turn("user", PyStr(<<"a">>))

\* a variable that is set and holds at least one character
SetNonEmpty(v) == v # PyNone /\ v # PyStr(<<>>)

\* C11: the token the command line process resolves from its environment is
\* GITHUB_TOKEN when that is set and non-empty, else AZURE_KEY when that is
\* set and non-empty, else None, never the empty string.
C11_TokenPrecedence ==
    LET github == DictGet(cli_environ, "GITHUB_TOKEN")
        azure == DictGet(cli_environ, "AZURE_KEY")
        token == get_token_from_env(cli_environ)
    IN  /\ SetNonEmpty(github) => token = github
        /\ ~SetNonEmpty(github) /\ SetNonEmpty(azure) => token = azure
        /\ ~SetNonEmpty(github) /\ ~SetNonEmpty(azure) => token = PyNone

\* C12: whenever the environment yields no non-empty token, no completion
\* request is ever issued, and a call of query_deepseek, from the one-shot
\* branch or from the interactive loop, has ended the process with status 1.
C12_NoTokenExits ==
    ~Truthy(get_token_from_env(cli_environ)) =>
        /\ cli_calls = 0
        /\ cli_request = NoCall
        /\ cli_return = NoReturn
        /\ cli_prompt # PyNone => cli_pc = "exited" /\ cli_exit = 1

C12_Witness ==
    /\ ~Truthy(get_token_from_env(cli_environ))
    /\ cli_args.interactive
    /\ cli_prompt = PyStr(<<"a">>)
    /\ cli_pc = "exited"
    /\ cli_exit = 1

C14_ErrorReturnsNone ==
    cli_request # NoCall => cli_exit # 1

\* the lines of CliLines that, lower-cased, read exit or quit, and the two
\* ways input() can fail
StopInputs ==
    { PyStr(<<"e", "x", "i", "t">>), PyStr(<<"E", "x", "I", "T">>),
      PyStr(<<"Q", "u", "i", "t">>), EndOfInput, Interrupt }

\* main without a prompt and without --interactive prints the usage and
\* issues no request
UsageStep ==
    cli_pc = "main" /\ cli_pc' # "main" /\ ~cli_args.interactive /\ cli_args.prompt = PyNone
        => cli_usage' /\ cli_calls' = 0 /\ cli_request' = NoCall

\* C15 as stated: a pass of the interactive loop ends the loop without a
\* request exactly when the input is a stop input, and every other input
\* issues one streaming request for that input.
C15_ControlFlow ==
    [][/\ UsageStep
       /\ cli_pc = "input" =>
           \A user_input \in CliLines \cup {EndOfInput, Interrupt},
             outcome \in StreamOutcomes :
             CliInput(user_input, outcome) =>
                 /\ (cli_pc' = "exited" /\ cli_calls' = cli_calls)
                        <=> user_input \in StopInputs
                 /\ user_input \notin StopInputs =>
                        /\ cli_calls' = cli_calls + 1
                        /\ cli_request'.stream
                        /\ cli_request'.messages = <<UserMessage(user_input)>>
      ]_vars

\* C15, amended: a stop input ends the loop with status 0 and no request;
\* with a usable token every other input issues one streaming request for
\* that input and the loop goes on; without one, every other input ends the
\* process with status 1 and no request.
C15_ControlFlowWithToken ==
    [][/\ UsageStep
       /\ cli_pc = "input" =>
           \A user_input \in CliLines \cup {EndOfInput, Interrupt},
             outcome \in StreamOutcomes :
             CliInput(user_input, outcome) =>
                 IF user_input \in StopInputs
                 THEN cli_pc' = "exited" /\ cli_exit' = 0 /\ cli_calls' = cli_calls
                 ELSE IF Truthy(get_token_from_env(cli_environ))
                 THEN /\ cli_calls' = cli_calls + 1
                      /\ cli_request'.stream
                      /\ cli_request'.messages = <<UserMessage(user_input)>>
                      /\ cli_pc' \in {"streaming", "input"}
                 ELSE cli_pc' = "exited" /\ cli_exit' = 1 /\ cli_calls' = cli_calls
      ]_vars

C15_Witness ==
    /\ cli_args.interactive
    /\ cli_calls = 2
    /\ cli_request.messages = <<UserMessage(PyStr(<<"q", "u", "i", "t", " ">>))>>
    /\ cli_pc = "exited"
    /\ cli_exit = 0

\* C16: while and after a stream is iterated, the values written to the
\* response container are, in order, f1, f1 + f2, ..., f1 + ... + fn for the
\* fragments in arrival order; the session log stays as the submit left it
\* until the stream ends, and then gains one assistant turn holding the last
\* value written.
C16_PrefixesInOrder ==
    \A s \in Sessions :
        pc[s] \in {"streaming", "streamed"} =>
            /\ Len(displayed[s]) = Len(fragments[s])
            /\ AllText(fragments[s]) =>
                  \A i \in 1..Len(fragments[s]) :
                      displayed[s][i] = Concat(SubSeq(fragments[s], 1, i))
            /\ pc[s] = "streaming" => Msgs(s) = lastCall.log
            /\ pc[s] = "streamed" =>
                  Msgs(s) = Append(lastCall.log,
                                   Turn("assistant",
                                        IF displayed[s] = <<>> THEN PyStr(<<>>)
                                        ELSE displayed[s][Len(displayed[s])]))

C16_Witness ==
    \E s \in Sessions :
        /\ pc[s] = "streamed"
        /\ fragments[s] = <<PyStr(<<"c">>), PyStr(<<"c">>)>>
        /\ displayed[s] = <<PyStr(<<"c">>), PyStr(<<"c", "c">>)>>
        /\ Len(Msgs(s)) = 2

\* the fragments that carried a text, in arrival order
TextsOf(frags) == SelectSeq(frags, LAMBDA f : f # PyNone)

\* the graphical front end: what is accumulated and committed is the
\* concatenation of the texts of the well-formed fragments
GuiTolerant ==
    \A s \in Sessions :
        /\ pc[s] \in {"streaming", "streamed"} =>
              full_response[s] = Concat(TextsOf(fragments[s]))
        /\ pc[s] = "streamed" =>
              Msgs(s)[Len(Msgs(s))] = Turn("assistant", Concat(TextsOf(fragments[s])))

\* the command line front end: what is accumulated and returned
CliTolerant ==
    /\ cli_pc = "streaming" => cli_full = Concat(TextsOf(cli_fragments))
    /\ cli_fragments # <<>> /\ cli_return \notin {NoReturn, PyNone} =>
          cli_return = Concat(TextsOf(cli_fragments))

\* C17: a fragment without choices, with an empty choices list, without a
\* delta, with a null delta or with null content adds nothing to the
\* accumulation and does not end the stream: the text accumulated, and
\* committed when the stream ends, is the concatenation of the contents of
\* the well-formed fragments.
C17_TolerantExtraction == GuiTolerant /\ CliTolerant

C17_Witness ==
    \E s \in Sessions :
        /\ pc[s] = "streamed"
        /\ fragments[s] = <<PyNone, PyStr(<<"b">>)>>
        /\ Msgs(s)[Len(Msgs(s))] = Turn("assistant", PyStr(<<"b">>))

\* C18: the render that follows the Disconnect action shows the session
\* unauthenticated and holding no token, whatever happened before.
C18_DisconnectEffective ==
    [][\A s \in Sessions :
          Disconnect(s) =>
              /\ ~session_state'[s].authenticated
              /\ "token" \notin DOMAIN session_state'[s]
      ]_vars

\* C19: every completion request of the command line process holds exactly
\* one message, the user turn for the input of the current query, and each
\* query starts its accumulation from the empty string.
C19_NoHistory ==
    /\ cli_request # NoCall =>
          /\ Len(cli_request.messages) = 1
          /\ cli_request.messages[1] = UserMessage(cli_prompt)
    /\ cli_pc = "streaming" /\ cli_fragments = <<>> => cli_full = PyStr(<<>>)

C19_Witness ==
    /\ cli_args.interactive
    /\ cli_calls = 2
    /\ cli_pc = "streaming"
    /\ cli_fragments = <<>>
    /\ cli_return = NoReturn
    /\ cli_request.messages = <<UserMessage(PyStr(<<" ">>))>>

====
